---- MODULE Spec2Model ----
(***************************************************************************)
(* A model of getdoc.py: getdoc() parses a downloaded page into a mutable  *)
(* tree, picks a content root, applies site-specific and generic cleanup   *)
(* steps in place and localizes the images.                                *)
(*                                                                         *)
(* The tree is a store of nodes (a sequence indexed by node id).  A node   *)
(* has a name (a tag name, "[document]" for the BeautifulSoup object,      *)
(* "#text" for a NavigableString, "#comment" for a Comment), an attribute  *)
(* mapping, a parent id (0 is Python's None), the ordered list of its      *)
(* children and, for strings, its text.  The class attribute is a set of   *)
(* tokens, as BeautifulSoup keeps it.                                      *)
(***************************************************************************)
EXTENDS Integers, Sequences, FiniteSets, TLC

VARIABLES
    url,            \* the URL of the page
    data,           \* the page, after line 131 (document order, parent ids)
    nodes,          \* the node store: every Tag / string object alive
    bs,             \* id of the parsed document (BeautifulSoup object)
    obs,            \* id of the output document
    cdiv,           \* the content root found (0: None)
    meta,           \* the meta record
    tags,           \* the set "tags" of getdoc
    ansid,          \* the answer counter of the Q&A rebuild
    title,          \* the document title
    changed,        \* the flag of the empty-tag loop
    passes,         \* full passes of the empty-tag loop so far
    dbg_keepattrs,  \* OPTIONS['dbg_keepattrs']
    imgs,           \* the list of img Tags the image loop walks
    i,              \* the index of the image loop
    files,          \* the files written to the work directory, by name
    raised,         \* the exception that ended the run ("" while none)
    pc              \* the position of getdoc

vars == <<url, data, nodes, bs, obs, cdiv, meta, tags, ansid, title, changed,
          passes, dbg_keepattrs, imgs, i, files, raised, pc>>

None == "<None>"

\* the value v, computed first, under the name F gives it: F(v)
With(v, F(_)) == IF v = v THEN F(v) ELSE F(v)

----------------------------------------------------------------------------
(* Nodes *)

RECURSIVE Fold(_, _, _)
\* a for loop over the list s, made before the loop starts: acc = Op(acc, e)
Fold(Op(_, _), acc, s) ==
    IF s = <<>> THEN acc
    ELSE With(Op(acc, Head(s)), LAMBDA a : Fold(Op, a, Tail(s)))

SeqToSet(s) == {s[k] : k \in 1..Len(s)}

NoAttrs == [k \in {} |-> None]

Node(name, attrs, parent, string) ==
    [name |-> name, attrs |-> attrs, parent |-> parent, contents |-> <<>>,
     string |-> string]

IsTag(t, n) == t[n].name \notin {"#text", "#comment", "[document]", ""}

IsNavigableString(t, n) == t[n].name = "#text"

IsComment(t, n) == t[n].name = "#comment"

\* tag.get(k): the attribute's value, or None
Get(t, n, k) == IF k \in DOMAIN t[n].attrs THEN t[n].attrs[k] ELSE None

\* the class tokens of a tag (the empty set when it has no class)
ClassOf(t, n) == IF "class" \in DOMAIN t[n].attrs THEN t[n].attrs["class"] ELSE {}

\* attrs={'class': v}: some token of the class attribute is one of vals
HasClass(t, n, vals) == ClassOf(t, n) \cap vals # {}

\* attrs={k: v} for a single-valued attribute
HasAttrIn(t, n, k, vals) == k \in DOMAIN t[n].attrs /\ t[n].attrs[k] \in vals

RECURSIVE DescendantsOfList(_, _)
\* the descendants of the nodes in list ks with those nodes, in document order
DescendantsOfList(t, ks) ==
    IF ks = <<>> THEN <<>>
    ELSE <<Head(ks)>> \o DescendantsOfList(t, t[Head(ks)].contents)
                      \o DescendantsOfList(t, Tail(ks))

\* tag.descendants
Descendants(t, n) == DescendantsOfList(t, t[n].contents)

\* tag.find_all(...): the matching Tags below n, a list made before any change
FindAll(t, n, P(_)) == SelectSeq(Descendants(t, n), LAMBDA d : IsTag(t, d) /\ P(d))

\* tag.find(...): the first match or None (0)
Find(t, n, P(_)) == With(FindAll(t, n, P), LAMBDA r : IF r = <<>> THEN 0 ELSE r[1])

Remove(s, x) == SelectSeq(s, LAMBDA y : y # x)

\* element.extract(): detach n from its parent, keeping its subtree
Extract(t, n) ==
    IF t[n].parent = 0 THEN t
    ELSE [t EXCEPT ![t[n].parent].contents = Remove(@, n), ![n].parent = 0]

\* tag.decompose(): detach n and destroy it and everything below it
Decompose(t, n) ==
    Fold(LAMBDA acc, m : [acc EXCEPT ![m] = Node("", NoAttrs, 0, "")],
         Extract(t, n), <<n>> \o Descendants(t, n))

\* tag.append(n): n becomes the last child of p (it is detached first)
Append_(t, p, n) ==
    [Extract(t, n) EXCEPT ![p].contents = Append(@, n), ![n].parent = p]

IndexOf(s, x) == CHOOSE k \in 1..Len(s) : s[k] = x

\* tag.unwrap(): n is replaced, in its parent, by its children
Unwrap(t, n) ==
    Fold(LAMBDA acc, m : [acc EXCEPT ![m].parent = t[n].parent],
         [t EXCEPT ![t[n].parent].contents =
                       SubSeq(@, 1, IndexOf(@, n) - 1) \o t[n].contents
                           \o SubSeq(@, IndexOf(@, n) + 1, Len(@)),
                   ![n].parent = 0,
                   ![n].contents = <<>>],
         t[n].contents)

\* element.replace_with(n): n takes the place of old in old's parent
ReplaceWith(t, old, n) ==
    With(Extract(t, n), LAMBDA t1 :
        [t1 EXCEPT ![t[old].parent].contents = [@ EXCEPT ![IndexOf(@, old)] = n],
                   ![n].parent = t[old].parent,
                   ![old].parent = 0])

\* soup.new_tag(name) followed by tag.string = s: two new nodes
NewTag(t, name, s) ==
    LET a == Len(t) + 1
    IN  t \o << [Node(name, NoAttrs, 0, "") EXCEPT !.contents = <<a + 1>>],
                Node("#text", NoAttrs, a, s) >>

\* tag.find_parent(name): the nearest ancestor of that name, or None (0)
RECURSIVE FindParent(_, _, _)
FindParent(t, n, name) ==
    IF t[n].parent = 0 THEN 0
    ELSE IF t[t[n].parent].name = name THEN t[n].parent
    ELSE FindParent(t, t[n].parent, name)

\* whether node n is in the tree of document d
InTree(t, d, n) == n \in SeqToSet(Descendants(t, d))

----------------------------------------------------------------------------
(* Pages.  A fragment is a list of nodes in document order; "up" is the    *)
(* place of a node's parent in the list, 0 for the nodes at the top of the *)
(* fragment.                                                               *)

Stub(name, attrs, string) == [name |-> name, attrs |-> attrs, up |-> 0, string |-> string]

El(name) == <<Stub(name, NoAttrs, "")>>

ElA(name, attrs) == <<Stub(name, attrs, "")>>

Txt(s) == <<Stub("#text", NoAttrs, s)>>

Cmt(s) == <<Stub("#comment", NoAttrs, s)>>

Cls(c) == "class" :> {c}

\* fragment g after fragment f
Beside(f, g) ==
    f \o [k \in 1..Len(g) |-> [g[k] EXCEPT !.up = IF @ = 0 THEN 0 ELSE @ + Len(f)]]

\* the one-node fragment e with the fragment f as its children
Under(e, f) == e \o [k \in 1..Len(f) |-> [f[k] EXCEPT !.up = @ + 1]]

Empty == <<>>

\* a page: the document, html, head with a title and the fragment h, body with b
Page(h, b) ==
    Under(El("[document]"),
        Under(El("html"),
            Beside(Under(El("head"), Beside(Under(El("title"), Txt(" T ")), h)),
                   Under(El("body"), b))))

\* the blanks of the pattern '(>)[ \r\n\t]+(</?[a-z])'
RxBlanks == {" ", "\r", "\n", "\t"}

\* the text at place k of the page d is what the pattern takes out: blanks
\* between a ">" and the "<" of a start tag or an end tag, that is blanks
\* followed by an element or by the end of their parent
BetweenTags(d, k) ==
    /\ d[k].name = "#text"
    /\ d[k].string # ""
    /\ \A j \in 1..Len(d[k].string) : SubSeq(d[k].string, j, j) \in RxBlanks
    /\ k < Len(d) /\ d[k + 1].up = d[k].up => d[k + 1].name \notin {"#text", "#comment"}

\* line 131: RX['sp-b-tags'].sub(rb'\1\2', data)
SpBTags(d) ==
    LET drop == {k \in 1..Len(d) : BetweenTags(d, k)}
        kept == SelectSeq([k \in 1..Len(d) |-> k], LAMBDA k : k \notin drop)
    IN  [j \in 1..Len(kept) |->
            [d[kept[j]] EXCEPT !.up = @ - Cardinality({k \in drop : k < @})]]

\* BeautifulSoup(data, 'lxml'): the tree of a page; node 1 is the document
Parse(d) ==
    [n \in 1..Len(d) |->
        [name |-> d[n].name, attrs |-> d[n].attrs, parent |-> d[n].up,
         contents |-> SelectSeq([k \in 1..Len(d) |-> k], LAMBDA k : d[k].up = n),
         string |-> d[n].string]]

\* BeautifulSoup('<!DOCTYPE html><html><head/><body/></html>', 'lxml'), added to
\* the store t: the new document is node Len(t) + 1
NewSoup(t) ==
    LET a == Len(t) + 1
    IN  t \o << [Node("[document]", NoAttrs, 0, "") EXCEPT !.contents = <<a + 1>>],
                [Node("html", NoAttrs, a, "") EXCEPT !.contents = <<a + 2, a + 3>>],
                Node("head", NoAttrs, a + 1, ""),
                Node("body", NoAttrs, a + 1, "") >>

----------------------------------------------------------------------------
(* Constants of the program *)

REMOVE_TAGS == {"frame", "iframe", "embed", "object", "script", "link", "meta", "style",
                "aside", "footer", "form", "nav"}

\* the class names matched by '^(post|(inner-|main_)content)$'
RxPostClass == {"post", "inner-content", "main_content"}

\* the class names matched by '^content$'
RxContentClass == {"content"}

\* the ids matched by '^(content|gist-pjax-container)$'
RxContentId == {"content", "gist-pjax-container"}

----------------------------------------------------------------------------
(* The content root, lines 132-144 *)

\* the probes with the generic id probe tried before the class probes
FindContentIdFirst(t, d) ==
    LET p1 == Find(t, d, LAMBDA n : t[n].name = "article")
        p2 == Find(t, d, LAMBDA n : t[n].name = "div" /\ HasClass(t, n, RxPostClass))
        p3 == Find(t, d, LAMBDA n : t[n].name = "div" /\ HasClass(t, n, RxContentClass))
        p4 == Find(t, d, LAMBDA n : t[n].name = "div" /\ HasAttrIn(t, n, "id", RxContentId))
    IN  IF p1 # 0 THEN p1 ELSE IF p4 # 0 THEN p4 ELSE IF p2 # 0 THEN p2 ELSE p3

\* bs.find('article') or bs.find('div', class) or ... : the first probe that
\* finds a Tag gives the result (a Tag is always true)
FindContent(t, d) ==
    LET p1 == Find(t, d, LAMBDA n : t[n].name = "article")
        p2 == Find(t, d, LAMBDA n : t[n].name = "div" /\ HasClass(t, n, RxPostClass))
        p3 == Find(t, d, LAMBDA n : t[n].name = "div" /\ HasClass(t, n, RxContentClass))
        p4 == Find(t, d, LAMBDA n : t[n].name = "div" /\ HasAttrIn(t, n, "id", RxContentId))
    IN  IF p1 # 0 THEN p1 ELSE IF p2 # 0 THEN p2 ELSE IF p3 # 0 THEN p3 ELSE p4

\* tag.head, tag.body, tag.h1, ...: the first Tag of that name below n
Child(t, n, name) == Find(t, n, LAMBDA m : t[m].name = name)

\* lines 140-142: the root becomes the body of the new document o, under the
\* head of the parsed one
Promote(t, d, o, c) ==
    With([t EXCEPT ![c].name = "body"], LAMBDA t1 :
        With(ReplaceWith(t1, Child(t1, o, "head"), Child(t1, d, "head")), LAMBDA t2 :
            ReplaceWith(t2, Child(t2, o, "body"), c)))

Locate ==
    /\ pc = "locate"
    /\ \E c \in {FindContent(nodes, bs)} :
         /\ cdiv' = c
         /\ IF c # 0
            THEN IF Child(nodes, bs, "head") = 0
                 THEN /\ raised' = "ValueError"
                      /\ pc' = "raised"
                      /\ UNCHANGED <<nodes, obs>>
                 ELSE /\ nodes' = Promote(nodes, bs, obs, c)
                      /\ pc' = "meta"
                      /\ UNCHANGED <<raised, obs>>
            ELSE /\ obs' = bs
                 /\ pc' = "meta"
                 /\ UNCHANGED <<nodes, raised>>
    /\ UNCHANGED <<url, imgs, i, data, bs, meta, tags, ansid, title, changed, passes, dbg_keepattrs,
                   files>>

----------------------------------------------------------------------------
(* The meta record, lines 146-149 *)

\* (find_all(name, attrs={k: v}) or [{}])[0].get(key)
FirstGet(t, d, name, k, v, key) ==
    With(FindAll(t, d, LAMBDA n : t[n].name = name /\ HasAttrIn(t, n, k, {v})),
         LAMBDA r : IF r = <<>> THEN None ELSE Get(t, r[1], key))

GetMeta ==
    /\ pc = "meta"
    /\ meta' = [ogsitename |-> FirstGet(nodes, obs, "meta", "name", "og:site_name", "content"),
                canonicalurl |-> FirstGet(nodes, obs, "link", "rel", "canonical", "href")]
    /\ pc' = "removetags"
    /\ UNCHANGED <<url, imgs, i, data, nodes, bs, obs, cdiv, tags, ansid, title, changed, passes,
                   dbg_keepattrs, files, raised>>

----------------------------------------------------------------------------
(* The tag blacklist, lines 151-152 *)

\* for tag in obs(REMOVE_TAGS): tag.decompose()
DecomposeAll(t, s) == Fold(LAMBDA acc, n : Decompose(acc, n), t, s)

\* the same with the blacklist left for later
RemoveTagsLater(t, d) == t

RemoveTagsOf(t, d) == DecomposeAll(t, FindAll(t, d, LAMBDA n : t[n].name \in REMOVE_TAGS))

RemoveTags ==
    /\ pc = "removetags"
    /\ nodes' = RemoveTagsOf(nodes, obs)
    /\ pc' = "stackoverflow"
    /\ UNCHANGED <<url, imgs, i, data, bs, obs, cdiv, meta, tags, ansid, title, changed, passes,
                   dbg_keepattrs, files, raised>>

----------------------------------------------------------------------------
(* Strings *)

\* s.startswith(p)
StartsWith(s, p) == Len(s) >= Len(p) /\ SubSeq(s, 1, Len(p)) = p

\* p in s
Contains(s, p) == \E k \in 1..(Len(s) - Len(p) + 1) : SubSeq(s, k, k + Len(p) - 1) = p

\* what str.strip() takes for blanks, the form feed standing for those that
\* are not in the pattern of line 57
Whitespace == {" ", "\t", "\n", "\r", "\f"}

RECURSIVE LStrip(_)
LStrip(s) ==
    IF Len(s) > 0 /\ SubSeq(s, 1, 1) \in Whitespace THEN LStrip(SubSeq(s, 2, Len(s))) ELSE s

RECURSIVE RStrip(_)
RStrip(s) ==
    IF Len(s) > 0 /\ SubSeq(s, Len(s), Len(s)) \in Whitespace
    THEN RStrip(SubSeq(s, 1, Len(s) - 1)) ELSE s

\* s.strip()
Strip(s) == LStrip(RStrip(s))

\* int(c) for a one-character string
IntOf(c) == CHOOSE k \in 0..9 : ToString(k) = c

----------------------------------------------------------------------------
(* rm_by_attr, lines 104-119 *)

\* the id values of the pages checked: the strings the id patterns are tried on
IdValues == {"content", "gist-pjax-container", "contents", "main", "tabs",
             "comments-link-7", "comments-link-", "respondcon", "WikiaArticleMsg",
             "comment_form", "sidebar", "left-sidebar-2", "side"}

\* the ids matched by '^(tabs|comments-link-.+)$'
RxTabsId ==
    {v \in IdValues : v = "tabs" \/ (StartsWith(v, "comments-link-")
                                      /\ Len(v) > Len("comments-link-"))}

\* the ids in which 'sidebar' is found
RxSidebarId == {v \in IdValues : Contains(v, "sidebar")}

\* the class names matched by
\* '^(mw-(jump|editsection)|navbar|noprint|navigation|share-button|bottom-notice)$'
RxWikiClass == {"mw-jump", "mw-editsection", "navbar", "noprint", "navigation",
                "share-button", "bottom-notice"}

\* attrs={attr: v}, v a string or a pattern given by the values vs it matches
Matches(t, n, attr, vs) ==
    IF attr = "class" THEN HasClass(t, n, vs) ELSE HasAttrIn(t, n, attr, vs)

ExtractAll(t, s) == Fold(LAMBDA acc, n : Extract(acc, n), t, s)

\* rm_by_attr(bs, tag, attr, val): val is the list of values, each given by
\* the set of attribute values it matches
RmByAttr(t, d, name, attr, val) ==
    Fold(LAMBDA acc, vs :
            ExtractAll(acc, FindAll(acc, d, LAMBDA n : acc[n].name = name
                                                       /\ Matches(acc, n, attr, vs))),
         t, val)

----------------------------------------------------------------------------
(* The Q&A rebuild, lines 154-197 *)

HeadingNames == {"h1", "h2", "h3", "h4", "h5"}

\* e.name = 'h%s' % (int(e.name[1]) + 2)
Renumber(t, e) == [t EXCEPT ![e].name = "h" \o ToString(IntOf(SubSeq(@, 2, 2)) + 2)]

\* lines 157-164
RemoveVoteClutter(t, d) ==
    LET t1 == ExtractAll(t, FindAll(t, d, LAMBDA n : t[n].name = "td"
                                                     /\ HasClass(t, n, {"vt"})))
        t2 == RmByAttr(t1, d, "table", "class", <<{"fw"}>>)
        t3 == RmByAttr(t2, d, "td", "class", <<{"comment-score"}>>)
        t4 == RmByAttr(t3, d, "div", "class", <<{"post-taglist"}, {"answers-subheader"}>>)
        t5 == RmByAttr(t4, d, "div", "id", <<RxTabsId>>)
        t6 == RmByAttr(t5, d, "a", "class", <<{"btn-outlined"}>>)
    IN  RmByAttr(t6, d, "a", "title", <<{"feed of this question and its answers"}>>)

IsVoteCell(t, n) == t[n].name = "td" /\ HasClass(t, n, {"votecell"})

\* lines 189-191: the heading h is made and appended to the body b
AppendHeading(t, b, h) == Append_(NewTag(t, h[1], h[2]), b, Len(t) + 1)

\* lines 192-197: the blocks ts go to the end of the body b
AppendBlocks(t, b, ts, comment) ==
    Fold(LAMBDA a, e :
            LET a1 == Append_(a, b, e)
            IN  IF comment = 0 THEN Unwrap(a1, e) ELSE [a1 EXCEPT ![e].name = "p"],
         t, ts)

\* the same with the heading of an answer made without counting the answer
RowBlocksNoCount(acc, b, vt, post, cbody) ==
    IF post = <<>> /\ cbody = <<>> THEN acc
    ELSE IF post = <<>>
    THEN [t |-> AppendBlocks(AppendHeading(acc.t, b, <<"h4", "Comments">>), b, cbody, 1),
          ansid |-> acc.ansid, comment |-> 1]
    ELSE IF Find(acc.t, vt, LAMBDA n : HasClass(acc.t, n, {"answercell"})) # 0
    THEN [t |-> AppendBlocks(
                    AppendHeading(acc.t, b, <<"h2", "Answer " \o ToString(acc.ansid)>>),
                    b, post, acc.comment),
          ansid |-> acc.ansid + 1, comment |-> acc.comment]
    ELSE [acc EXCEPT !.t = AppendBlocks(acc.t, b, post, acc.comment)]

\* lines 177-197: the blocks found in the row td are appended under their
\* heading; post and cbody are the two lists of lines 178 and 180
RowBlocks(acc, b, vt, post, cbody) ==
    IF post = <<>> /\ cbody = <<>> THEN acc
    ELSE IF post = <<>>
    THEN [t |-> AppendBlocks(AppendHeading(acc.t, b, <<"h4", "Comments">>), b, cbody, 1),
          ansid |-> acc.ansid, comment |-> 1]
    ELSE IF Find(acc.t, vt, LAMBDA n : HasClass(acc.t, n, {"answercell"})) # 0
    THEN [t |-> AppendBlocks(
                    AppendHeading(acc.t, b, <<"h2", "Answer " \o ToString(acc.ansid + 1)>>),
                    b, post, acc.comment),
          ansid |-> acc.ansid + 1, comment |-> acc.comment]
    ELSE [acc EXCEPT !.t = AppendBlocks(acc.t, b, post, acc.comment)]

\* lines 175-176: the headings below td get two levels more
RenumberBelow(t, td) ==
    Fold(Renumber, t, FindAll(t, td, LAMBDA n : t[n].name \in HeadingNames))

\* lines 174-197: one turn of the inner loop, for the vote cell c of table vt
RowStep(acc, b, vt, c) ==
    With(acc.t[c].parent, LAMBDA td :
        With(RenumberBelow(acc.t, td), LAMBDA t1 :
            RowBlocks([acc EXCEPT !.t = t1], b, vt,
                      FindAll(t1, td, LAMBDA n : t1[n].name = "div"
                                                 /\ HasClass(t1, n, {"post-text"})),
                      FindAll(t1, td, LAMBDA n : t1[n].name = "div"
                                                 /\ HasClass(t1, n, {"comment-body"})))))

\* lines 171-197: one turn of the outer loop, for the vote cell vc
VoteCellStep(acc, b, vc) ==
    IF acc.err # "" THEN acc
    ELSE With(FindParent(acc.t, vc, "table"), LAMBDA vt :
            IF vt = 0 THEN [acc EXCEPT !.err = "AttributeError"]
            ELSE With(Fold(LAMBDA a, c : RowStep(a, b, vt, c),
                           [t |-> acc.t, ansid |-> acc.ansid, comment |-> 0],
                           FindAll(acc.t, vt, LAMBDA n : IsVoteCell(acc.t, n))),
                      LAMBDA r : [t |-> r.t, ansid |-> r.ansid, err |-> ""]))

\* lines 165-197: the body b is emptied and built again from the vote cells
RebuildBody(t, d, b) ==
    With(Child(t, b, "h1"), LAMBDA ttitle :
        IF ttitle = 0
        THEN [t |-> ExtractAll(t, t[b].contents), ansid |-> 0, err |-> "ValueError"]
        ELSE Fold(LAMBDA acc, vc : VoteCellStep(acc, b, vc),
                  [t |-> Append_(ExtractAll(t, t[b].contents), b, ttitle),
                   ansid |-> 0, err |-> ""],
                  FindAll(t, d, LAMBDA n : IsVoteCell(t, n))))

\* lines 156-197, run when a vote cell was found
Rebuild(t, d) ==
    With(RemoveVoteClutter(t, d), LAMBDA t1 :
        With(Child(t1, d, "body"), LAMBDA b :
            IF b = 0 THEN [t |-> t1, ansid |-> 0, err |-> "AttributeError"]
            ELSE RebuildBody(t1, d, b)))

StackOverflow ==
    /\ pc = "stackoverflow"
    /\ IF Find(nodes, obs, LAMBDA n : IsVoteCell(nodes, n)) # 0
       THEN \E r \in {Rebuild(nodes, obs)} :
              /\ tags' = tags \cup {"stackoverflow"}
              /\ nodes' = r.t
              /\ ansid' = r.ansid
              /\ raised' = r.err
              /\ pc' = IF r.err = "" THEN "irrelevant" ELSE "raised"
       ELSE /\ pc' = "irrelevant"
            /\ UNCHANGED <<tags, nodes, ansid, raised>>
    /\ UNCHANGED <<url, imgs, i, data, bs, obs, cdiv, meta, title, changed, passes, dbg_keepattrs,
                   files>>

----------------------------------------------------------------------------
(* The title and the per-site rules, lines 198-224 *)

RECURSIVE StringOf(_, _)
\* tag.string: the string of a Tag with a single child, or None
StringOf(t, n) ==
    IF n = 0 THEN None
    ELSE IF ~IsTag(t, n) THEN t[n].string
    ELSE IF Len(t[n].contents) = 1 THEN StringOf(t, t[n].contents[1])
    ELSE None

\* obs.head.title.string, None when a step of the path is None
TitleString(t, d) ==
    With(Child(t, d, "head"),
         LAMBDA h : IF h = 0 THEN None ELSE StringOf(t, Child(t, h, "title")))

\* lines 203-206
DigitalOceanRules(t, d) ==
    LET t1 == RmByAttr(t, d, "div", "class", <<{"postable-info-bar-container"}, {"info-cta"}>>)
        t2 == RmByAttr(t1, d, "h1", "class", <<{"content-title"}>>)
        t3 == RmByAttr(t2, d, "img", "class", <<{"tutorial-image"}, {"tutorial-image-mobile"}>>)
    IN  RmByAttr(t3, d, "button", "class", <<{"new-upvote-button"}>>)

\* lines 208-224: the rules run for every page
CommonRules(t, d) ==
    LET t1 == RmByAttr(t, d, "div", "class", <<{"wpcnt"}, {"sharedaddy"}, {"share-subscribe"}>>)
        t2 == RmByAttr(t1, d, "div", "id", <<{"respondcon"}>>)
        t3 == DecomposeAll(t2, FindAll(t2, d, LAMBDA n : HasClass(t2, n, RxWikiClass)))
        t4 == RmByAttr(t3, d, "div", "id", <<{"WikiaArticleMsg"}>>)
        t5 == RmByAttr(t4, d, "span", "class", <<{"editsection"}>>)
        t6 == RmByAttr(t5, d, "div", "class",
                       <<{"gist-file-navigation"}, {"js-header-wrapper"}, {"js-discussion"}>>)
        t7 == RmByAttr(t6, d, "a", "class", <<{"float-right"}>>)
        t8 == RmByAttr(t7, d, "div", "id", <<{"comment_form"}>>)
    IN  DecomposeAll(t8, FindAll(t8, d, LAMBDA n : HasAttrIn(t8, n, "id", RxSidebarId)))

\* the same with every rule keyed on the site name
SiteRulesKeyed(t, d, m) ==
    IF m.ogsitename = "DigitalOcean" THEN CommonRules(DigitalOceanRules(t, d), d) ELSE t

\* lines 201-224
SiteRules(t, d, m) ==
    CommonRules(IF m.ogsitename = "DigitalOcean" THEN DigitalOceanRules(t, d) ELSE t, d)

RemoveIrrelevant ==
    /\ pc = "irrelevant"
    /\ \E s \in {TitleString(nodes, obs)} :
       IF s = None
       THEN /\ raised' = "AttributeError"
            /\ pc' = "raised"
            /\ UNCHANGED <<title, nodes>>
       ELSE /\ title' = Strip(s)
            /\ nodes' = SiteRules(nodes, obs, meta)
            /\ pc' = "comments"
            /\ UNCHANGED raised
    /\ UNCHANGED <<url, imgs, i, data, bs, obs, cdiv, meta, tags, ansid, changed, passes,
                   dbg_keepattrs, files>>

----------------------------------------------------------------------------
(* Comments and empty tags, lines 226-239 *)

\* obs.find_all(text=lambda text: isinstance(text, Comment)), each extracted
RemoveCommentsOf(t, d) ==
    ExtractAll(t, SelectSeq(Descendants(t, d), LAMBDA n : IsComment(t, n)))

RemoveComments ==
    /\ pc = "comments"
    /\ nodes' = RemoveCommentsOf(nodes, obs)
    /\ pc' = "prune"
    /\ UNCHANGED <<url, imgs, i, data, bs, obs, cdiv, meta, tags, ansid, title, changed, passes,
                   dbg_keepattrs, files, raised>>

\* the test of lines 231-232
IsEmptyTag(t, n) ==
    /\ \/ t[n].contents = <<>>
       \/ /\ Len(t[n].contents) = 1
          /\ IsNavigableString(t, t[n].contents[1])
          /\ Strip(t[t[n].contents[1]].string) = ""
    /\ t[n].name \notin {"img"}

\* the same pass, said to have changed nothing: the loop stops after it
PrunePassOnce(t, d) ==
    <<Fold(LAMBDA acc, n : IF IsEmptyTag(acc, n) THEN Extract(acc, n) ELSE acc,
           t, FindAll(t, d, LAMBDA n : TRUE)), 0>>

\* lines 230-234: one pass over the Tags of the tree; acc is <<tree, changed>>
PrunePassOf(t, d) ==
    Fold(LAMBDA acc, n : IF IsEmptyTag(acc[1], n) THEN <<Extract(acc[1], n), 1>> ELSE acc,
         <<t, 0>>, FindAll(t, d, LAMBDA n : TRUE))

\* one turn of the while loop of line 228
PrunePass ==
    /\ pc = "prune"
    /\ \E r \in {PrunePassOf(nodes, obs)} :
         /\ nodes' = r[1]
         /\ changed' = r[2]
         /\ pc' = IF r[2] = 0 THEN "prune2" ELSE "prune"
    /\ passes' = passes + 1
    /\ UNCHANGED <<url, imgs, i, data, bs, obs, cdiv, meta, tags, ansid, title, dbg_keepattrs, files,
                   raised>>

\* lines 237-239
FinalPruneOf(t, d) ==
    Fold(LAMBDA acc, n : IF acc[n].name \notin {"img"} /\ acc[n].contents = <<>>
                         THEN Decompose(acc, n) ELSE acc,
         t, FindAll(t, d, LAMBDA n : TRUE))

FinalPrune ==
    /\ pc = "prune2"
    /\ nodes' = FinalPruneOf(nodes, obs)
    /\ pc' = "unwrap"
    /\ UNCHANGED <<url, imgs, i, data, bs, obs, cdiv, meta, tags, ansid, title, changed, passes,
                   dbg_keepattrs, files, raised>>

----------------------------------------------------------------------------
(* Div wrappers, lines 241-243 *)

\* tag.contents[0].name is None for a string
UnwrapDivsOf(t, d) ==
    Fold(LAMBDA acc, n : IF Len(acc[n].contents) = 1 /\ IsTag(acc, acc[n].contents[1])
                         THEN Unwrap(acc, n) ELSE acc,
         t, FindAll(t, d, LAMBDA n : t[n].name = "div"))

UnwrapDivs ==
    /\ pc = "unwrap"
    /\ nodes' = UnwrapDivsOf(nodes, obs)
    /\ pc' = "hrefs"
    /\ UNCHANGED <<url, imgs, i, data, bs, obs, cdiv, meta, tags, ansid, title, changed, passes,
                   dbg_keepattrs, files, raised>>

----------------------------------------------------------------------------
(* urllib.parse.urljoin, for references without ';' parameters and without *)
(* '.' or '..' segments                                                    *)

\* s.find(p) + 1: the first place of p in s, 0 when p is not in s
FindStr(s, p) ==
    IF Contains(s, p)
    THEN CHOOSE k \in 1..Len(s) : /\ SubSeq(s, k, k + Len(p) - 1) = p
                                  /\ \A j \in 1..(k - 1) : SubSeq(s, j, j + Len(p) - 1) # p
    ELSE 0

\* s.rfind(p) + 1
RFindStr(s, p) ==
    IF Contains(s, p)
    THEN CHOOSE k \in 1..Len(s) : /\ SubSeq(s, k, k + Len(p) - 1) = p
                                  /\ \A j \in (k + 1)..Len(s) : SubSeq(s, j, j + Len(p) - 1) # p
    ELSE 0

From(s, k) == SubSeq(s, k, Len(s))

UpperLetters == "ABCDEFGHIJKLMNOPQRSTUVWXYZ"
LowerLetters == "abcdefghijklmnopqrstuvwxyz"

LowerChar(c) ==
    IF Contains(UpperLetters, c) THEN SubSeq(LowerLetters, FindStr(UpperLetters, c),
                                             FindStr(UpperLetters, c))
    ELSE c

RECURSIVE Lower(_)
\* s.lower()
Lower(s) == IF s = "" THEN "" ELSE LowerChar(SubSeq(s, 1, 1)) \o Lower(From(s, 2))

IsAlpha(c) == Contains(UpperLetters, c) \/ Contains(LowerLetters, c)

IsSchemeChar(c) == IsAlpha(c) \/ Contains("0123456789+-.", c)

uses_relative == {"", "ftp", "http", "gopher", "nntp", "imap", "wais", "file", "https",
                  "shttp", "mms", "prospero", "rtsp", "rtspu", "sftp", "svn", "svn+ssh",
                  "ws", "wss"}

uses_netloc == {"", "ftp", "http", "gopher", "nntp", "telnet", "imap", "wais", "file",
                "mms", "https", "shttp", "snews", "prospero", "rtsp", "rtspu", "rsync",
                "svn", "svn+ssh", "sftp", "nfs", "git", "git+ssh", "ws", "wss"}

\* the first place in s of one of the characters of cs, Len(s) + 1 when none
FirstOf(s, cs) ==
    IF \E k \in 1..Len(s) : Contains(cs, SubSeq(s, k, k))
    THEN CHOOSE k \in 1..Len(s) : /\ Contains(cs, SubSeq(s, k, k))
                                  /\ \A j \in 1..(k - 1) : ~Contains(cs, SubSeq(s, j, j))
    ELSE Len(s) + 1

\* the path, query and fragment of the rest r of a reference
SplitRest(r) ==
    With(IF Contains(r, "#") THEN SubSeq(r, 1, FindStr(r, "#") - 1) ELSE r, LAMBDA r3 :
        [path |-> IF Contains(r3, "?") THEN SubSeq(r3, 1, FindStr(r3, "?") - 1) ELSE r3,
         query |-> IF Contains(r3, "?") THEN From(r3, FindStr(r3, "?") + 1) ELSE "",
         fragment |-> IF Contains(r, "#") THEN From(r, FindStr(r, "#") + 1) ELSE ""])

\* the netloc of the rest r1 of a reference (after its scheme) and what follows
SplitNetloc(r1) ==
    IF StartsWith(r1, "//")
    THEN With(FirstOf(From(r1, 3), "/?#"), LAMBDA e :
            [netloc |-> SubSeq(r1, 3, e + 1), rest |-> From(r1, e + 2)])
    ELSE [netloc |-> "", rest |-> r1]

\* whether s starts with a scheme, which ends before place c
HasScheme(s, c) ==
    /\ c > 1
    /\ IsAlpha(SubSeq(s, 1, 1))
    /\ \A k \in 1..(c - 1) : IsSchemeChar(SubSeq(s, k, k))

\* urlsplit(s, scheme)
UrlSplit(s, default) ==
    With(FindStr(s, ":"), LAMBDA c :
        With(SplitNetloc(IF HasScheme(s, c) THEN From(s, c + 1) ELSE s), LAMBDA n :
            With(SplitRest(n.rest), LAMBDA r :
                [scheme |-> IF HasScheme(s, c) THEN Lower(SubSeq(s, 1, c - 1)) ELSE default,
                 netloc |-> n.netloc, path |-> r.path, query |-> r.query,
                 fragment |-> r.fragment])))

\* urlunsplit(u)
UrlUnsplit(u) ==
    (IF u.scheme # "" THEN u.scheme \o ":" ELSE "")
    \o (IF u.netloc # "" \/ (u.scheme # "" /\ u.scheme \in uses_netloc
                              /\ ~StartsWith(u.path, "//"))
        THEN "//" \o u.netloc \o (IF u.path # "" /\ ~StartsWith(u.path, "/")
                                   THEN "/" ELSE "")
        ELSE "")
    \o u.path
    \o (IF u.query # "" THEN "?" \o u.query ELSE "")
    \o (IF u.fragment # "" THEN "#" \o u.fragment ELSE "")

\* the parts of the reference r joined to those of the base b (same scheme)
JoinParts(b, r) ==
    IF r.scheme \in uses_netloc /\ r.netloc # "" THEN r
    ELSE With(IF r.scheme \in uses_netloc THEN b.netloc ELSE r.netloc, LAMBDA n :
            IF r.path = ""
            THEN [r EXCEPT !.netloc = n, !.path = b.path,
                           !.query = IF r.query = "" THEN b.query ELSE @]
            ELSE IF StartsWith(r.path, "/") THEN [r EXCEPT !.netloc = n]
            ELSE [r EXCEPT !.netloc = n,
                           !.path = (IF Contains(b.path, "/")
                                     THEN SubSeq(b.path, 1, RFindStr(b.path, "/"))
                                     ELSE "/") \o @])

\* urljoin(base, ref)
UrlJoin(base, ref) ==
    IF base = "" THEN ref
    ELSE IF ref = "" THEN base
    ELSE With(UrlSplit(base, ""), LAMBDA b :
            With(UrlSplit(ref, b.scheme), LAMBDA r :
                IF r.scheme # b.scheme \/ r.scheme \notin uses_relative THEN ref
                ELSE UrlUnsplit(JoinParts(b, r))))

----------------------------------------------------------------------------
(* Links and attributes, lines 245-251 *)

\* lines 246-247 for one a Tag
FixHref(t, n, u) ==
    With(Get(t, n, "href"), LAMBDA href :
        IF href \notin {None, ""} /\ ~Contains(href, "://")
        THEN [t EXCEPT ![n].attrs = [@ EXCEPT !["href"] = UrlJoin(u, href)]]
        ELSE t)

FixHrefsOf(t, d, u) ==
    Fold(LAMBDA acc, n : FixHref(acc, n, u), t, FindAll(t, d, LAMBDA n : t[n].name = "a"))

FixHrefs ==
    /\ pc = "hrefs"
    /\ nodes' = FixHrefsOf(nodes, obs, url)
    /\ pc' = "attrs"
    /\ UNCHANGED <<url, imgs, i, data, bs, obs, cdiv, meta, tags, ansid, title, changed,
                   passes, dbg_keepattrs, files, raised>>

KeptAttrs == {"src", "href", "alt"}

\* the same with the class kept too
StripAttrsButClass(t, n) ==
    [t EXCEPT ![n].attrs = [k \in DOMAIN @ \cap (KeptAttrs \cup {"class"}) |-> @[k]]]

\* line 251 for one Tag
StripAttrs(t, n) ==
    [t EXCEPT ![n].attrs = [k \in DOMAIN @ \cap KeptAttrs |-> @[k]]]

RemoveAttrsOf(t, d) == Fold(StripAttrs, t, FindAll(t, d, LAMBDA n : TRUE))

\* lines 249-251 and the list of line 257
RemoveAttrs ==
    /\ pc = "attrs"
    /\ nodes' = IF ~dbg_keepattrs THEN RemoveAttrsOf(nodes, obs) ELSE nodes
    /\ imgs' = FindAll(nodes', obs, LAMBDA n : nodes'[n].name = "img")
    /\ i' = 0
    /\ pc' = "images"
    /\ UNCHANGED <<url, data, bs, obs, cdiv, meta, tags, ansid, title, changed, passes,
                   dbg_keepattrs, files, raised>>

----------------------------------------------------------------------------
(* Images, lines 257-291.  In a byte string "%" stands for the byte 89,    *)
(* "{|" for the bytes 1F 8B and "^*^" for the bytes FF D8 FF.              *)

\* src.rsplit('.', 1)[-1]
RSplitDot(s) == IF Contains(s, ".") THEN From(s, RFindStr(s, ".") + 1) ELSE s

\* '%03d' % n
Pad3(n) ==
    IF n < 10 THEN "00" \o ToString(n) ELSE IF n < 100 THEN "0" \o ToString(n)
    ELSE ToString(n)

\* gzip.decompress of a stream made of the two magic bytes and the payload
Gunzip(b) == From(b, 3)

\* lines 267-269
Inflate(b) == IF StartsWith(b, "{|") THEN Gunzip(b) ELSE b

\* lines 266-281: the extension of the local file, None for an unknown format
ExtOf(src, imgdata) ==
    With(Lower(RSplitDot(src)), LAMBDA ext :
        IF ext \in {"jpg", "jpeg", "png", "gif"} THEN ext
        ELSE IF StartsWith(imgdata, "%PNG") THEN "png"
        ELSE IF StartsWith(imgdata, "GIF") THEN "gif"
        ELSE IF StartsWith(imgdata, "^*^") THEN "jpg"
        ELSE None)

\* the same with the images counted from 1
ImageNameFromOne(k, ext) == "image" \o Pad3(k + 1) \o "." \o ext

\* line 282
ImageName(k, ext) == "image" \o Pad3(k) \o "." \o ext

\* lines 258-263: the address of the image n, None for an image without src
ImageUrl(t, n, u) ==
    With(Get(t, n, "src"), LAMBDA src :
        IF src \in {None, ""} THEN None
        ELSE IF ~Contains(src, "://") THEN UrlJoin(u, src) ELSE src)

\* what the image bytes downloaded can be; "URLError" is a failed download
ImageBytes == {"%PNG..", "GIF89a", "^*^JFIF", "BM....", "{|%PNG..", "URLError"}

\* what the tools run on a jpg file can do: the output of file (rc 0) or its
\* failure, and whether exiftool left the backup file
ToolRuns == {[file |-> "JPEG image data, resolution (DPI), density 72x72", backup |-> FALSE],
             [file |-> "JPEG image data", backup |-> TRUE],
             [file |-> "JPEG image data", backup |-> FALSE],
             [file |-> "CalledProcessError", backup |-> FALSE]}

\* lines 286-291: the exception the DPI stamping of a jpg file ends with, "" for none
StampDpi(run) ==
    IF run.file = "CalledProcessError" THEN "CalledProcessError"
    ELSE IF ~Contains(run.file, "DPI") /\ ~run.backup THEN "FileNotFoundError"
    ELSE ""

\* one turn of the loop of line 257 (the tree, the file written and what is
\* in it, the exception), for the image n at index k and address src, the
\* bytes b downloaded and the tool run
ImageTurn(t, n, k, src, b, run) ==
    IF src = None
    THEN [t |-> Extract(t, n), file |-> None, imgdata |-> "", err |-> ""]
    ELSE IF b = "URLError" THEN [t |-> t, file |-> None, imgdata |-> "", err |-> "URLError"]
    ELSE With(ExtOf(src, Inflate(b)), LAMBDA ext :
            IF ext = None THEN [t |-> Extract(t, n), file |-> None, imgdata |-> "", err |-> ""]
            ELSE [t |-> [t EXCEPT ![n].attrs = ("src" :> ImageName(k, ext)) @@ @],
                  file |-> ImageName(k, ext),
                  imgdata |-> Inflate(b),
                  err |-> IF ext = "jpg" THEN StampDpi(run) ELSE ""])

\* the loop of line 257, one image at a time, then the exit to line 292
RetrieveImages ==
    /\ pc = "images"
    /\ IF i < Len(imgs)
       THEN \E src \in {ImageUrl(nodes, imgs[i + 1], url)} :
              \E b \in ImageBytes, run \in ToolRuns :
                \E r \in {ImageTurn(nodes, imgs[i + 1], i, src, b, run)} :
                  /\ nodes' = r.t
                  /\ files' = IF r.file = None THEN files
                              ELSE (r.file :> r.imgdata) @@ files
                  /\ raised' = r.err
                  /\ pc' = IF r.err = "" THEN "images" ELSE "raised"
                  /\ i' = i + 1
       ELSE /\ pc' = "write"
            /\ UNCHANGED <<nodes, files, raised, i>>
    /\ UNCHANGED <<url, data, bs, obs, cdiv, meta, tags, ansid, title, changed, passes,
                   dbg_keepattrs, imgs>>

\* lines 292-294: index.html is written, with the title in it
WriteHtml ==
    /\ pc = "write"
    /\ files' = ("index.html" :> title) @@ files
    /\ pc' = "done"
    /\ UNCHANGED <<url, data, nodes, bs, obs, cdiv, meta, tags, ansid, title, changed,
                   passes, dbg_keepattrs, imgs, i, raised>>

----------------------------------------------------------------------------
(* getdoc *)

\* lines 126-133: the state at line 133, for the page d downloaded from u
Start(u, d, keep) ==
    /\ url = u
    /\ data = SpBTags(d)
    /\ nodes = NewSoup(Parse(data))
    /\ bs = 1
    /\ obs = Len(data) + 1
    /\ cdiv = 0
    /\ meta = [ogsitename |-> None, canonicalurl |-> None]
    /\ tags = {}
    /\ ansid = 0
    /\ title = None
    /\ changed = 0
    /\ passes = 0
    /\ dbg_keepattrs = keep
    /\ imgs = <<>>
    /\ i = 0
    /\ files = [f \in {} |-> ""]
    /\ raised = ""
    /\ pc = "locate"

Next ==
    \/ Locate
    \/ GetMeta
    \/ RemoveTags
    \/ StackOverflow
    \/ RemoveIrrelevant
    \/ RemoveComments
    \/ PrunePass
    \/ FinalPrune
    \/ UnwrapDivs
    \/ FixHrefs
    \/ RemoveAttrs
    \/ RetrieveImages
    \/ WriteHtml

BaseUrl == "http://site.org/a/b.html?q=1"

----------------------------------------------------------------------------
(* Pages with candidate content roots *)

MaxCandidates == 2

\* the elements tried as content roots: the four kinds the probes look for and
\* near misses of each
Candidates ==
    { El("article"), El("section"),
      ElA("div", Cls("post")), ElA("div", Cls("inner-content")),
      ElA("div", Cls("main_content")), ElA("div", Cls("content")),
      ElA("div", Cls("contents")), ElA("div", "class" :> {"wide", "content"}),
      ElA("p", Cls("content")), ElA("div", "id" :> "content"),
      ElA("div", "id" :> "gist-pjax-container"), ElA("div", "id" :> "contents"),
      ElA("span", "id" :> "content") }

RECURSIVE Siblings(_)
\* the candidates of the list cs side by side, each holding a text
Siblings(cs) ==
    IF cs = <<>> THEN Empty ELSE Beside(Under(Head(cs), Txt("text")), Siblings(Tail(cs)))

RECURSIVE Nested(_)
\* the candidates of the list cs one in the other
Nested(cs) ==
    IF cs = <<>> THEN Txt("text") ELSE Under(Head(cs), Nested(Tail(cs)))

CandidateLists == UNION {[1..k -> Candidates] : k \in 0..MaxCandidates}

LocatePages == {Page(Empty, Siblings(cs)) : cs \in CandidateLists}
                   \cup {Page(Empty, Nested(cs)) : cs \in CandidateLists}

InitLocate == \E d \in LocatePages : Start(BaseUrl, d, FALSE)

SpecLocate == InitLocate /\ [][Next]_vars

\* the places of the page, in document order, of the elements satisfying P
PlacesOf(d, P(_)) == {n \in 1..Len(d) : P(d[n])}

Least(S) == CHOOSE n \in S : \A m \in S : n <= m

StubHasClass(e, vals) == "class" \in DOMAIN e.attrs /\ e.attrs["class"] \cap vals # {}

StubHasId(e, vals) == "id" \in DOMAIN e.attrs /\ e.attrs["id"] \in vals

Articles == PlacesOf(data, LAMBDA e : e.name = "article")

PostDivs == PlacesOf(data, LAMBDA e : e.name = "div"
                        /\ StubHasClass(e, {"post", "inner-content", "main_content"}))

ContentDivs == PlacesOf(data, LAMBDA e : e.name = "div" /\ StubHasClass(e, {"content"}))

IdDivs == PlacesOf(data, LAMBDA e : e.name = "div"
                        /\ StubHasId(e, {"content", "gist-pjax-container"}))

\* C1: the content root is the first article element if there is one, else the
\* first div of class post / inner-content / main_content, else the first div
\* of class content, else the first div of id content / gist-pjax-container;
\* it then is the body of the output document; when no probe matches the
\* parsed document is the output document, unchanged, and nothing is raised.
C1_ProbeOrder ==
    pc # "locate" =>
        /\ cdiv = IF Articles # {} THEN Least(Articles)
                  ELSE IF PostDivs # {} THEN Least(PostDivs)
                  ELSE IF ContentDivs # {} THEN Least(ContentDivs)
                  ELSE IF IdDivs # {} THEN Least(IdDivs)
                  ELSE 0
        /\ pc = "meta" /\ cdiv # 0 => /\ Child(nodes, obs, "body") = cdiv
                                      /\ obs # bs
        /\ pc = "meta" /\ cdiv = 0 => /\ obs = bs
                                      /\ nodes = NewSoup(Parse(data))
                                      /\ raised = ""

\* a page with an article and a div of class content, the article chosen
C1_Witness ==
    /\ pc = "meta"
    /\ Articles # {}
    /\ ContentDivs # {}
    /\ data[cdiv].name = "article"
    /\ Least(ContentDivs) < cdiv

\* a page no probe matches, used whole
C1_WitnessFallback == pc = "meta" /\ cdiv = 0 /\ Len(data) > 8

----------------------------------------------------------------------------
(* Q&A pages: a heading, the table of the question and the tables of the   *)
(* answers, each with one vote cell and one post-text block                *)

MaxAnswers == 2

\* what a post-text block holds
PostContents ==
    { Txt("post"),
      Beside(Under(El("h1"), Txt("section")), Under(El("p"), Txt("para"))),
      Beside(Under(El("p"), Txt("one")), Under(El("h2"), Txt("two"))) }

PostText(c) == Under(ElA("div", Cls("post-text")), c)

\* the table of a question: the block is in the cell beside the vote cell, or
\* in the vote cell
QuestionTables ==
    {Under(El("table"), Under(El("tr"),
        Beside(Under(ElA("td", Cls("votecell")), Txt("5")),
               Under(ElA("td", Cls("postcell")), Under(El("div"), PostText(c)))))) :
        c \in PostContents}
    \cup {Under(El("table"), Under(El("tr"),
              Under(ElA("td", Cls("votecell")), PostText(c)))) : c \in PostContents}

\* the table of an answer: the same, marked by an answer cell
AnswerTables ==
    {Under(El("table"), Under(El("tr"),
        Beside(Under(ElA("td", Cls("votecell")), Txt("3")),
               Under(ElA("td", Cls("answercell")), PostText(c))))) : c \in PostContents}
    \cup {Under(El("table"), Under(El("tr"),
              Beside(Under(ElA("td", Cls("votecell")), PostText(c)),
                     Under(ElA("td", Cls("answercell")), Txt("by x"))))) :
              c \in PostContents}

RECURSIVE Row(_)
\* the fragments of the list fs side by side
Row(fs) == IF fs = <<>> THEN Empty ELSE Beside(Head(fs), Row(Tail(fs)))

AnswerLists == UNION {[1..k -> AnswerTables] : k \in 0..MaxAnswers}

PageTitle == Under(El("h1"), Txt("Question"))

QAPages ==
    {Page(Empty, Beside(PageTitle, Beside(q, Row(as)))) :
        q \in QuestionTables, as \in AnswerLists}
    \cup {Page(Empty, Beside(PageTitle,
                             Beside(q, Under(ElA("div", "id" :> "answers"), Row(as))))) :
              q \in QuestionTables, as \in AnswerLists \ {<<>>}}

InitQA == \E d \in QAPages : Start(BaseUrl, d, FALSE)

SpecQA == InitQA /\ [][Next]_vars

\* the places of the children of place n of the page, in document order
StubKids(d, n) == SelectSeq([k \in 1..Len(d) |-> k], LAMBDA k : d[k].up = n)

\* the places of the post-text blocks of the page, in document order
PostTexts == SelectSeq([k \in 1..Len(data) |-> k],
                       LAMBDA k : StubHasClass(data[k], {"post-text"}))

\* what a child of the rebuilt body is: a node of the page, named by its
\* place, or a heading made by the rebuild, named by its tag and string
Shown(t, n) ==
    IF n <= Len(data) THEN ToString(n) ELSE t[n].name \o ":" \o StringOf(t, n)

ShownBody == [k \in 1..Len(nodes[Child(nodes, obs, "body")].contents) |->
                  Shown(nodes, nodes[Child(nodes, obs, "body")].contents[k])]

Places(ks) == [k \in 1..Len(ks) |-> ToString(ks[k])]

RECURSIVE AnswersFrom(_)
\* the answers from the N-th on: "Answer N" and, after it, what the block held
AnswersFrom(N) ==
    IF N + 1 > Len(PostTexts) THEN <<>>
    ELSE <<"h2:Answer " \o ToString(N)>> \o Places(StubKids(data, PostTexts[N + 1]))
             \o AnswersFrom(N + 1)

\* C2: on a page with a heading, one question table and k answer tables, the
\* rebuilt body is the page's first heading, what the question's post-text
\* block held, and then for N = 1..k, in the order of the answer tables, one
\* heading "Answer N" followed by what that answer's block held.
C2_AnswerHeadings ==
    pc = "irrelevant" =>
        /\ "stackoverflow" \in tags
        /\ ansid = Len(PostTexts) - 1
        /\ ShownBody = <<ToString(Least(PlacesOf(data, LAMBDA e : e.name = "h1")))>>
                           \o Places(StubKids(data, PostTexts[1])) \o AnswersFrom(1)

\* two answers: the body holds "Answer 1" and, later, "Answer 2", each once
C2_Witness ==
    /\ pc = "irrelevant"
    /\ Len(PostTexts) = 3
    /\ \E a, b \in 1..Len(ShownBody) :
          /\ a < b
          /\ ShownBody[a] = "h2:Answer 1"
          /\ ShownBody[b] = "h2:Answer 2"
          /\ \A c \in 1..Len(ShownBody) \ {a, b} : ~StartsWith(ShownBody[c], "h2:Answer")

----------------------------------------------------------------------------
(* Pages with a table of vote cells in any arrangement: rows with or       *)
(* without a vote cell, a post-text block and a comment-body block, each   *)
(* block under a heading of its own                                        *)

MaxVoteRows == 2

VoteCells == {Empty, Under(ElA("td", Cls("votecell")), Txt("1"))}

PostBlocks == {Empty, PostText(Beside(Under(El("h2"), Txt("part")), Txt("post")))}

CommentBlocks ==
    {Empty, Under(ElA("div", Cls("comment-body")),
                  Beside(Under(El("h1"), Txt("note")), Txt("comment")))}

VoteRows ==
    {Under(El("tr"), Beside(v, Under(El("td"), Beside(Txt("by x"), Beside(p, c))))) :
        v \in VoteCells, p \in PostBlocks, c \in CommentBlocks}

AnswerMarks == {Empty, Under(ElA("div", Cls("answercell")), Txt("answered"))}

VoteTables ==
    {Under(El("table"), Beside(Row(rs), m)) :
        rs \in UNION {[1..k -> VoteRows] : k \in 1..MaxVoteRows}, m \in AnswerMarks}

VotePages == {Page(Empty, Beside(PageTitle, vt)) : vt \in VoteTables}

InitVote == \E d \in VotePages : Start(BaseUrl, d, FALSE)

SpecVote == InitVote /\ [][Next]_vars

RECURSIVE StubAncestors(_, _)
\* the places of the ancestors of place n of the page
StubAncestors(d, n) ==
    IF d[n].up = 0 THEN {} ELSE {d[n].up} \cup StubAncestors(d, d[n].up)

\* the table enclosing place n of the page, 0 when there is none
StubTable(d, n) ==
    IF \E a \in StubAncestors(d, n) : d[a].name = "table"
    THEN CHOOSE a \in StubAncestors(d, n) :
            /\ d[a].name = "table"
            /\ \A b \in StubAncestors(d, n) : d[b].name = "table" => b <= a
    ELSE 0

\* place n of the page is inside the table enclosing some vote cell
InVoteTable(d, n) ==
    \E v \in 1..Len(d) :
        /\ d[v].name = "td"
        /\ StubHasClass(d[v], {"votecell"})
        /\ StubTable(d, v) \in StubAncestors(d, n)

\* C10: every heading that was inside the table of a vote cell and is in the
\* rebuilt body is two levels below its level on the page.
C10_HeadingsPlusTwo ==
    pc = "irrelevant" /\ "stackoverflow" \in tags =>
        \A n \in 1..Len(data) :
            /\ data[n].name \in {"h1", "h2", "h3", "h4", "h5", "h6"}
            /\ InVoteTable(data, n)
            /\ InTree(nodes, Child(nodes, obs, "body"), n)
            => nodes[n].name = "h" \o ToString(IntOf(SubSeq(data[n].name, 2, 2)) + 2)

----------------------------------------------------------------------------
(* Pages of sites of any origin: elements the per-site rules look for and  *)
(* near misses of each, under a site name or none                          *)

MaxSiteBlocks == 2

SiteBlocks ==
    { ElA("div", Cls("sharedaddy")), ElA("p", Cls("sharedaddy")),
      ElA("div", "id" :> "left-sidebar-2"), ElA("div", "id" :> "side"),
      ElA("p", Cls("navbar")), ElA("span", Cls("editsection")),
      ElA("a", Cls("float-right")), ElA("div", "id" :> "comment_form"),
      ElA("div", Cls("postable-info-bar-container")), ElA("h1", Cls("content-title")),
      ElA("div", Cls("story")), El("p") }

SiteNames == {Empty,
              ElA("meta", ("name" :> "og:site_name") @@ ("content" :> "DigitalOcean")),
              ElA("meta", ("name" :> "og:site_name") @@ ("content" :> "Blog"))}

SiteBlockLists == UNION {[1..k -> SiteBlocks] : k \in 1..MaxSiteBlocks}

SitePages == {Page(h, Siblings(bl)) : h \in SiteNames, bl \in SiteBlockLists}
                 \cup {Page(h, Nested(bl)) : h \in SiteNames, bl \in SiteBlockLists}

InitSite == \E d \in SitePages : Start(BaseUrl, d, FALSE)

SpecSite == InitSite /\ [][Next]_vars

RECURSIVE Above(_, _)
\* node n and the nodes above it in the tree
Above(t, n) == IF n = 0 THEN {} ELSE {n} \cup Above(t, t[n].parent)

\* what the rules run for every page look for
CommonTarget(t, n) ==
    \/ t[n].name = "div" /\ HasClass(t, n, {"wpcnt", "sharedaddy", "share-subscribe",
                                            "gist-file-navigation", "js-header-wrapper",
                                            "js-discussion"})
    \/ t[n].name = "div" /\ HasAttrIn(t, n, "id", {"respondcon", "WikiaArticleMsg",
                                                   "comment_form"})
    \/ HasClass(t, n, {"mw-jump", "mw-editsection", "navbar", "noprint", "navigation",
                       "share-button", "bottom-notice"})
    \/ t[n].name = "span" /\ HasClass(t, n, {"editsection"})
    \/ t[n].name = "a" /\ HasClass(t, n, {"float-right"})
    \/ HasAttrIn(t, n, "id", {"sidebar", "left-sidebar-2"})

\* what the rules for DigitalOcean look for
DigitalOceanTarget(t, n) ==
    \/ t[n].name = "div" /\ HasClass(t, n, {"postable-info-bar-container", "info-cta"})
    \/ t[n].name = "h1" /\ HasClass(t, n, {"content-title"})
    \/ t[n].name = "img" /\ HasClass(t, n, {"tutorial-image", "tutorial-image-mobile"})
    \/ t[n].name = "button" /\ HasClass(t, n, {"new-upvote-button"})

\* node n is looked for by a rule that is run for the site of name s
RuleTarget(t, n, s) ==
    IsTag(t, n) /\ (CommonTarget(t, n) \/ (s = "DigitalOcean" /\ DigitalOceanTarget(t, n)))

\* C7 as stated: when the site name is not a known one and the page has no
\* vote cell, the per-site stage leaves the tree as it was.
C7_UnknownOriginUnchanged ==
    [][pc = "irrelevant" /\ pc' = "comments"
       /\ meta.ogsitename # "DigitalOcean" /\ "stackoverflow" \notin tags
       => nodes' = nodes]_vars

\* C7: the rules for DigitalOcean are run only under the site name
\* DigitalOcean, the other rules for every page whatever its origin: the stage
\* removes the elements a rule run for the page looks for, with what they
\* hold, and nothing else; the tree is unchanged when there is no such element.
C7_RulesOfThePage ==
    [][pc = "irrelevant" /\ pc' = "comments" =>
         /\ SeqToSet(Descendants(nodes', obs)) =
                {n \in SeqToSet(Descendants(nodes, obs)) :
                    \A m \in Above(nodes, n) : ~RuleTarget(nodes, m, meta.ogsitename)}
         /\ (\A n \in SeqToSet(Descendants(nodes, obs)) :
                ~RuleTarget(nodes, n, meta.ogsitename)) => nodes' = nodes]_vars

\* a page of the site name Blog went through the stage: its navbar is gone,
\* its content-title is still there
C7_Witness ==
    /\ pc = "comments"
    /\ meta.ogsitename = "Blog"
    /\ \E n \in 1..Len(data) : /\ StubHasClass(data[n], {"navbar"})
                               /\ ~InTree(nodes, obs, n)
    /\ \E n \in 1..Len(data) : /\ StubHasClass(data[n], {"content-title"})
                               /\ InTree(nodes, obs, n)

----------------------------------------------------------------------------
(* Pages with vote tables and other content inside and outside of elements *)
(* of the tag blacklist, under site names                                  *)

MaxFormBlocks == 2

Wrappers == {"", "form", "aside", "footer", "div"}

Wrapped == {Under(El("table"),
                  Under(El("tr"), Beside(Under(ElA("td", Cls("votecell")), Txt("1")),
                                         Under(El("td"), PostText(Txt("post")))))),
            Under(El("p"), Txt("text")),
            Under(El("script"), Txt("code"))}

FormBlocks == {IF w = "" THEN f ELSE Under(El(w), f) : w \in Wrappers, f \in Wrapped}

SiteName(s) == ElA("meta", ("name" :> "og:site_name") @@ ("content" :> s))

FormHeads == {Empty, SiteName("Blog"), Beside(SiteName("Blog"), SiteName("Other"))}

FormPages ==
    {Page(h, Beside(PageTitle, Row(bl))) :
        h \in FormHeads, bl \in UNION {[1..k -> FormBlocks] : k \in 1..MaxFormBlocks}}

InitForm == \E d \in FormPages : Start(BaseUrl, d, FALSE)

SpecForm == InitForm /\ [][Next]_vars

\* the vote cells of the page
StubVoteCells == PlacesOf(data, LAMBDA e : e.name = "td" /\ StubHasClass(e, {"votecell"}))

\* place n of the page is an element of the tag blacklist or inside one
Blacklisted(n) == \E a \in {n} \cup StubAncestors(data, n) : data[a].name \in REMOVE_TAGS

\* the site names of the page, in document order
StubSiteNames ==
    SelectSeq([k \in 1..Len(data) |-> k],
              LAMBDA k : data[k].name = "meta" /\ "name" \in DOMAIN data[k].attrs
                         /\ data[k].attrs["name"] = "og:site_name")

\* C9 as stated: the Q&A detection runs before the first step of the cleanup,
\* so every vote cell of the page, one inside a form too, is in the tree when
\* it runs.
C9_DetectionBeforeCleanup ==
    pc = "stackoverflow" => \A n \in StubVoteCells : InTree(nodes, obs, n)

\* C9: the meta record is read first, the elements of the tag blacklist are
\* removed next, the Q&A detection and the per-site rules run after that: when
\* the detection runs the tree holds no element of the blacklist, the meta
\* record holds the first site name of the page, and the page is taken for a
\* Q&A page exactly when it has a vote cell outside of every blacklisted
\* element.
C9_BlacklistBeforeDetection ==
    /\ pc = "stackoverflow" =>
          /\ \A n \in SeqToSet(Descendants(nodes, obs)) : nodes[n].name \notin REMOVE_TAGS
          /\ \A n \in 1..Len(data) : InTree(nodes, obs, n) <=> n > 1 /\ ~Blacklisted(n)
          /\ meta.ogsitename = IF StubSiteNames = <<>> THEN None
                               ELSE data[StubSiteNames[1]].attrs["content"]
    /\ pc \in {"irrelevant", "comments"} =>
          ("stackoverflow" \in tags <=> \E n \in StubVoteCells : ~Blacklisted(n))

\* a page under a site name with its only vote cell in a form: the name was
\* read, the page was not taken for a Q&A page
C9_Witness ==
    /\ pc = "irrelevant"
    /\ meta.ogsitename = "Blog"
    /\ StubVoteCells # {}
    /\ \A n \in StubVoteCells : \E a \in StubAncestors(data, n) : data[a].name = "form"
    /\ "stackoverflow" \notin tags

----------------------------------------------------------------------------
(* Pages with empty elements: empty, holding blanks, holding only a        *)
(* comment, emptied by what is removed from them, and images               *)

MaxPruneBlocks == 2

PruneBlocks ==
    { El("p"),
      Under(El("p"), Txt(" ")),
      Under(El("p"), Txt("\f")),
      Under(El("p"), Txt("text")),
      Under(El("p"), Cmt("note")),
      Under(El("p"), Beside(Txt(" "), Beside(Cmt("note"), Txt("\n")))),
      Under(El("p"), Beside(Txt("\f"), Beside(Cmt("note"), Txt("\f")))),
      Under(El("div"), El("p")),
      Under(El("div"), Under(El("span"), Txt("\f\n"))),
      Under(El("div"), Under(El("div"), El("p"))),
      Under(El("div"), Beside(Txt("\f"), El("p"))),
      Under(El("div"), Beside(El("p"), Under(El("p"), Txt("text")))),
      El("img"),
      Under(El("div"), El("img")) }

PrunePages ==
    {Page(Empty, Row(bl)) : bl \in UNION {[1..k -> PruneBlocks] : k \in 1..MaxPruneBlocks}}

InitPrune == \E d \in PrunePages : Start(BaseUrl, d, FALSE)

SpecPrune == InitPrune /\ [][Next]_vars

\* the string s is made of blanks only
Blank(s) == \A k \in 1..Len(s) : SubSeq(s, k, k) \in Whitespace

\* the element n holds nothing, or nothing but one text made of blanks
HoldsNothing(t, n) ==
    \/ t[n].contents = <<>>
    \/ /\ Len(t[n].contents) = 1
       /\ t[t[n].contents[1]].name = "#text"
       /\ Blank(t[t[n].contents[1]].string)

\* the elements of the tree
Elements(t, d) == {n \in SeqToSet(Descendants(t, d)) : IsTag(t, n)}

\* C5: the loop stops, after at most one pass more than it removed elements;
\* when it has stopped every element of the tree but the images holds
\* something other than one text of blanks, and the loop and the pass after
\* it, run again, remove nothing and leave the tree as it is.
C5_PruneFixedPoint ==
    /\ pc \in {"prune", "prune2"} =>
          passes <= Cardinality({n \in 1..Len(data) : ~InTree(nodes, obs, n)})
                        + (IF pc = "prune2" THEN 1 ELSE 0)
    /\ pc \in {"prune2", "unwrap"} =>
          /\ \A n \in Elements(nodes, obs) : nodes[n].name = "img" \/ ~HoldsNothing(nodes, n)
          /\ PrunePassOf(nodes, obs) = <<nodes, 0>>
          /\ FinalPruneOf(nodes, obs) = nodes

\* the loop has stopped after three passes: an element was removed in the
\* second pass for what the first pass removed from it
C5_Witness ==
    /\ pc = "prune2"
    /\ passes = 3
    /\ \E n \in 1..Len(data) : data[n].name = "div" /\ ~InTree(nodes, obs, n)

----------------------------------------------------------------------------------------------------------------------------------------
(* Pages with images: sources with and without an extension, and images   *)
(* without a source                                                        *)

MaxImages == 3

Images == {ElA("img", "src" :> "a.jpg"), ElA("img", "src" :> "/i/b.PNG"),
           ElA("img", "src" :> "c"), ElA("img", "alt" :> "none")}

ImagePages ==
    {Page(Empty, Beside(Under(El("p"), Txt("text")), Row(il))) :
        il \in UNION {[1..k -> Images] : k \in 1..MaxImages}}

InitImage == \E d \in ImagePages : Start(BaseUrl, d, FALSE)

SpecImage == InitImage /\ [][Next]_vars

\* the images of the page, in document order
StubImages == SelectSeq([k \in 1..Len(data) |-> k], LAMBDA k : data[k].name = "img")

\* the source of the image at place n of the page, None when it has none
StubSrc(n) == IF "src" \in DOMAIN data[n].attrs THEN data[n].attrs["src"] ELSE None

\* the text after the last dot of s, s when it has no dot
AfterLastDot(s) ==
    IF \E k \in 1..Len(s) : SubSeq(s, k, k) = "."
    THEN SubSeq(s, 1 + CHOOSE k \in 1..Len(s) :
                        /\ SubSeq(s, k, k) = "."
                        /\ \A j \in (k + 1)..Len(s) : SubSeq(s, j, j) # ".", Len(s))
    ELSE s

KnownExtensions == {"jpg", "jpeg", "png", "gif"}

\* the format the first bytes tell
Sniffed(b) ==
    IF SubSeq(b, 1, 4) = "%PNG" THEN "png"
    ELSE IF SubSeq(b, 1, 3) = "GIF" THEN "gif"
    ELSE IF SubSeq(b, 1, 3) = "^*^" THEN "jpg"
    ELSE None

\* the indices as they are written in the file names
Index3 == <<"000", "001", "002", "003", "004">>

\* the image at index k (from 0) of the list was downloaded
Downloaded(k) == ~(pc = "raised" /\ raised = "URLError" /\ k = i - 1)

\* C6: the images left by the cleanup are taken in document order and counted
\* from 0; an image without a source is taken out of the tree; an image that
\* is kept has the source image<index in three digits>.<ext> and its bytes are
\* in the file of that name, ext being the text after the last dot of its
\* source, in small letters, when that is jpg, jpeg, png or gif, and else the
\* format its bytes tell; an image that is taken out has no such extension.
C6_ImageNames ==
    pc \in {"images", "write", "done", "raised"} =>
        /\ imgs = StubImages
        /\ \A k \in 0..(i - 1) :
             With(imgs[k + 1], LAMBDA n :
                IF ~Downloaded(k) THEN nodes[n].attrs = data[n].attrs
                ELSE IF StubSrc(n) = None THEN ~InTree(nodes, obs, n)
                ELSE IF ~InTree(nodes, obs, n)
                THEN Lower(AfterLastDot(StubSrc(n))) \notin KnownExtensions
                ELSE \E ext \in KnownExtensions :
                       With("image" \o Index3[k + 1] \o "." \o ext, LAMBDA name :
                          /\ nodes[n].attrs["src"] = name
                          /\ name \in DOMAIN files
                          /\ ext = IF Lower(AfterLastDot(StubSrc(n))) \in KnownExtensions
                                   THEN Lower(AfterLastDot(StubSrc(n)))
                                   ELSE Sniffed(files[name])))

\* the sources of the images of the tree, in document order
Sources ==
    With(FindAll(nodes, obs, LAMBDA n : nodes[n].name = "img"),
         LAMBDA l : [k \in 1..Len(l) |-> Get(nodes, l[k], "src")])

\* the page of three images a.jpg, /i/b.PNG and c, the last one of PNG bytes,
\* is written with the three files
C6_Witness ==
    /\ pc = "done"
    /\ [k \in 1..Len(StubImages) |-> StubSrc(StubImages[k])] = <<"a.jpg", "/i/b.PNG", "c">>
    /\ Sources = <<"image000.jpg", "image001.png", "image002.png">>
    /\ DOMAIN files = {"image000.jpg", "image001.png", "image002.png", "index.html"}
    /\ files["image002.png"] = "%PNG.."

\* an image without a source came first: the next one is image 1
C6_WitnessDiscarded ==
    /\ pc = "done"
    /\ Len(StubImages) = 2
    /\ StubSrc(StubImages[1]) = None
    /\ Sources = <<"image001.jpg">>

\* C8 as stated: nothing that goes wrong when a jpg file is stamped with its
\* DPI ends the run.
C8_StampingBestEffort ==
    ~(pc = "raised" /\ raised \in {"CalledProcessError", "FileNotFoundError"})

----------------------------------------------------------------------------
(* Pages with links of every form of reference and elements with           *)
(* attributes of every kind, run with and without the debug flag           *)

MaxLinks == 2

Hrefs == {"c.html", "/c", "//h.org/p", "#f", "?x=2", "/r?u=http://x.org/",
          "http://o.org/z", "mailto:a@b"}

Links ==
    {Under(ElA("a", ("href" :> h) @@ ("class" :> {"ext"}) @@ ("title" :> "t")), Txt("link")) :
        h \in Hrefs}
    \cup {Under(ElA("a", ("name" :> "top") @@ ("id" :> "side")), Txt("anchor")),
          ElA("img", ("src" :> "/i.png") @@ ("alt" :> "pic") @@ ("class" :> {"wide"})
                         @@ ("width" :> "10")),
          Under(ElA("div", ("id" :> "main") @@ ("style" :> "x")), Txt("text"))}

LinkPages ==
    {Page(Empty, Row(ll)) : ll \in UNION {[1..k -> Links] : k \in 1..MaxLinks}}

InitLink == \E d \in LinkPages, keep \in {FALSE, TRUE} : Start(BaseUrl, d, keep)

SpecLink == InitLink /\ [][Next]_vars

\* the reference s starts with a scheme: a letter, then letters, digits, "+",
\* "-" or ".", then ":"
Absolute(s) ==
    \E k \in 2..Len(s) :
        /\ SubSeq(s, k, k) = ":"
        /\ IsAlpha(SubSeq(s, 1, 1))
        /\ \A j \in 1..(k - 1) : IsSchemeChar(SubSeq(s, j, j))

\* the links of the page that hold a reference
StubLinks ==
    {n \in 1..Len(data) : /\ data[n].name = "a"
                          /\ "href" \in DOMAIN data[n].attrs
                          /\ data[n].attrs["href"] # ""}

\* C3 as stated: after the links are resolved, every link of the tree whose
\* reference on the page was a relative one holds an absolute address.
C3_NoRelativeLeft ==
    pc = "attrs" =>
        \A n \in StubLinks :
            InTree(nodes, obs, n) /\ ~Absolute(data[n].attrs["href"])
                => Absolute(nodes[n].attrs["href"])

\* C4: without the debug flag, from the removal of the attributes on every
\* element of the tree has no attribute other than src, href and alt; this is
\* so for the tree written in the end, the images having their src set.
C4_AttributesKept ==
    ~dbg_keepattrs /\ (pc \in {"images", "write", "done"} \/ (pc = "raised" /\ i > 0)) =>
        \A n \in Elements(nodes, obs) : DOMAIN nodes[n].attrs \subseteq {"src", "href", "alt"}

\* a page with a link of a class and an image of a class and a width is
\* written without the flag: the image has its new src, the link its href
C4_Witness ==
    /\ ~dbg_keepattrs
    /\ pc = "done"
    /\ \E n \in Elements(nodes, obs) :
          /\ data[n].name = "img"
          /\ "width" \in DOMAIN data[n].attrs
          /\ nodes[n].attrs = ("src" :> "image000.png") @@ ("alt" :> "pic")
    /\ \E n \in Elements(nodes, obs) :
          /\ data[n].name = "a"
          /\ "class" \in DOMAIN data[n].attrs
          /\ DOMAIN nodes[n].attrs = {"href"}

====
